---- MODULE Spec2Model ----
(***************************************************************************)
(* SecureChat.                                                             *)
(*                                                                         *)
(* Spec: the server (src/server.py): the session registry Server.clients,  *)
(* the accept loop Server.start, the per-session receive loop              *)
(* Server.listen, Server.broadcast, Server.disconnect and the shutdown     *)
(* path of Server.__init__, as threads that interleave between the         *)
(* statements that touch shared state or the transport. FairSpec adds the  *)
(* scheduling of the threads.                                              *)
(*                                                                         *)
(* SpecKex: one key exchange byte by byte, Client.dh of src/server.py      *)
(* against Client.dh of src/client.py.                                     *)
(*                                                                         *)
(* SpecClient: the chat client process (src/client.py, src/cli.py): the    *)
(* thread running Client.start and the main thread running CLI.main,       *)
(* CLI.submit, Client.send and CLI.clean_exit, around that key exchange.   *)
(*                                                                         *)
(* SpecLib: single calls of the functions of src/dhke.py and of Message of *)
(* src/cipher.py.                                                          *)
(***************************************************************************)
EXTENDS Naturals, Sequences, FiniteSets, Bags, TLC

\* Number of connections the server ever accepts.
MaxSessions == 3
\* Number of things the peers and the operator do in all: a chat message,
\* !exit, an undecodable frame, a truncated key-exchange response, a peer
\* closing or resetting its connection, ^C.
MaxEvents == 2
\* Widths in bytes of the prime, the generator and the public key in the
\* key-exchange frame (1024, 16 and 1024 in src/dhke.py), scaled down.
LEN_PRIME == 2
LEN_GEN == 1
LEN_PK == 2
\* Private exponents are drawn from 1..MaxExp.
MaxExp == 15
\* Primes up to MaxPrime, values up to MaxValue, widths up to MaxWidth are
\* given to the functions of src/dhke.py.
MaxPrime == 23
MaxValue == 300
MaxWidth == 2
\* Plaintexts have up to MaxLen + 3 characters; Random returns one of MaxIv
\* blocks.
MaxLen == 32
MaxIv == 2
\* Lines the user submits.
MaxSubmits == 2
\* AES.block_size
BlockSize == 16
\* The size of the key-exchange frame.
DH_MSG_SIZE == LEN_PRIME + LEN_GEN + LEN_PK

\* The thread that runs Server.__init__ / Server.start.
Main == 0
\* Accepted connections; session c is served by listen thread c.
Sessions == 1..MaxSessions
Threads == {Main} \cup Sessions

\* Client.key is None.
NoKey == 0

VARIABLES
    clients,   \* Server.clients: the registry, a list of sessions
    conn,      \* Client.connection of each session: "none", "open", "closed"
    peer,      \* the remote endpoint of each connection: "absent", "up", "gone"
    kex,       \* outcome of Client.dh: "none", "exchanging", "ok", "failed"
    key,       \* Client.key of each session (NoKey: None)
    wire,      \* bag of the Message frames written to each connection
    pc,        \* position of each thread
    site,      \* call site of the running disconnect / broadcast of each thread
    bmsg,      \* content argument of the running broadcast of each thread
    bi,        \* index of the list iterator of the running broadcast
    cur,       \* Main's local variable client (line 70, line 50)
    si,        \* index of the list iterator of line 50
    present,   \* sessions in the registry ever since the thread's broadcast began
    nchat,     \* chat messages read from each session so far
    exitReq,   \* the peer of the session has sent !exit
    events,    \* what the peers and the operator have done so far, counted
    \* One key exchange, both ends.
    dh_params,       \* Server.dh_params: <<p, g>>
    server_private,  \* a of Client.dh, src/server.py
    client_private,  \* private_key of Client.dh, src/client.py
    to_client,       \* bytes sent by the server, not yet read by the client
    to_server,       \* bytes sent by the client, not yet read by the server
    server_key,      \* shared_key returned by Client.dh, src/server.py
    client_key,      \* shared_key returned by Client.dh, src/client.py
    spc,             \* position of the server in Client.dh
    cpc,             \* position of the thread running Client.start
    sent,            \* what the chat client has passed to sendall, in order
    \* The chat client process, src/client.py and src/cli.py.
    self_key,        \* Client.key, src/client.py (NoDigest: None)
    client_conn,     \* Client.connection, src/client.py: "open", "closed"
    client_cli,      \* Client.cli is set (FALSE: None)
    cli_client,      \* CLI.client is set (FALSE: None)
    chat_win,        \* the lines add_msg has put into the chat box
    upc,             \* position of the main thread, in CLI.main
    ucontent,        \* content argument of the running Client.send
    submits,         \* lines the user has submitted so far, counted
    \* One call of a function of src/dhke.py or src/cipher.py.
    call,      \* the function and its arguments
    ret        \* what it returned or raised

\* The variables of the server.
svars == <<clients, conn, peer, kex, key, wire, pc, site, bmsg, bi, cur, si,
           present, nchat, exitReq, events>>
\* The variables of the key exchange.
kexvars == <<dh_params, server_private, client_private, to_client, to_server,
             server_key, client_key, spc, cpc, sent>>
\* The variables of the chat client process.
clivars == <<self_key, client_conn, client_cli, cli_client, chat_win, upc,
             ucontent, submits>>
\* The variables of the call.
libvars == <<call, ret>>

vars == <<svars, kexvars, clivars, libvars>>

----------------------------------------------------------------------------
\* Message texts, as (kind, session, number) triples.

\* from_client.address[0] + ": " + content, the n-th chat message of c.
ChatMsg(c, n) == <<"chat", c, n>>
\* "{} has joined".format(client.address[0])
JoinMsg(c) == <<"join", c, 0>>
\* "{} has disconnected".format(client.address[0])
DisconnectMsg(c) == <<"depart", c, 0>>
\* "Acknowledged"
AckMsg == <<"ack", 0, 0>>
NoMsg == <<"none", 0, 0>>

Range(s) == {s[i] : i \in 1..Len(s)}

\* list.remove(x): drops the first occurrence; ValueError (caught) if absent.
ListRemove(s, x) ==
    IF x \in Range(s)
    THEN LET i == CHOOSE k \in 1..Len(s) :
                      s[k] = x /\ \A j \in 1..(k - 1) : s[j] # x
         IN  SubSeq(s, 1, i - 1) \o SubSeq(s, i + 1, Len(s))
    ELSE s

\* The key Client.dh derives for session c: the hash of the shared secret
\* when the whole LEN_PK-byte response was read, another digest when recv
\* returned only part of it.
SharedKey(c, resp) == IF resp = "full" THEN c ELSE c + MaxSessions

\* The key the peer of session c derived.
PeerKey(c) == c

\* Message(key=self.key, plaintext=content).pack()
Frame(r, content) == [key |-> key[r], text |-> content]

\* connection.sendall can succeed.
CanWrite(r) == conn[r] = "open"

\* A socket whose calls do not fail once it has been closed locally.
CanFailPeerOnly(r) == peer[r] = "gone"

\* connection.sendall / connection.recv can raise OSError.
CanFail(r) == conn[r] = "closed" \/ peer[r] = "gone"

\* Client.send(content) on session r, when sendall succeeds.
ClientSend(r, content) ==
    [wire EXCEPT ![r] = @ (+) SetToBag({Frame(r, content)})]

\* The client argument of the disconnect / from_client of the broadcast
\* thread t is running.
Target(t) == IF t = Main THEN cur ELSE t

----------------------------------------------------------------------------
\* Results of library calls: a value, or the exception that was raised.
Ok(x) == [err |-> "none", val |-> x]
Raise(e) == [err |-> e, val |-> <<>>]

\* src/dhke.py. Byte strings are sequences of numbers below Base, hex
\* strings are sequences of numbers below 16.

\* hex(i)[2:]
RECURSIVE HexDigits(_)
HexDigits(i) == IF i < 16 THEN <<i>> ELSE Append(HexDigits(i \div 16), i % 16)

\* "Make the length of i_hex a multiple of 2"
EvenHex(h) == IF Len(h) % 2 # 0 THEN <<0>> \o h ELSE h

\* binascii.unhexlify
unhexlify(h) == [k \in 1..(Len(h) \div 2) |-> (16 * h[2 * k - 1]) + h[2 * k]]

\* binascii.hexlify
hexlify(bts) ==
    [k \in 1..(2 * Len(bts)) |->
        IF k % 2 = 1 THEN bts[(k + 1) \div 2] \div 16 ELSE bts[k \div 2] % 16]

\* int(h, 16) of a non-empty hex string
RECURSIVE IntOfHex(_)
IntOfHex(h) ==
    IF Len(h) = 1 THEN h[1]
    ELSE (16 * IntOfHex(SubSeq(h, 1, Len(h) - 1))) + h[Len(h)]

\* DH.b2i: int(binascii.hexlify(bts), 16); int("", 16) raises ValueError.
b2i(bts) == IF Len(bts) = 0 THEN Raise("ValueError") ELSE Ok(IntOfHex(hexlify(bts)))

\* A package that returns the bytes of i without the padding on the left.
packageUnpadded(i, length) ==
    LET i_bytes == unhexlify(EvenHex(HexDigits(i)))
    IN  IF Len(i_bytes) > length THEN Raise("InvalidDH") ELSE Ok(i_bytes)

\* A package that keeps the low bytes of a value that is too long.
packageTruncating(i, length) ==
    LET i_bytes == unhexlify(EvenHex(HexDigits(i)))
        len_i == Len(i_bytes)
    IN  IF len_i > length
        THEN Ok(SubSeq(i_bytes, len_i - length + 1, len_i))
        ELSE Ok([k \in 1..(length - len_i) |-> 0] \o i_bytes)

\* DH.package
package(i, length) ==
    LET i_bytes == unhexlify(EvenHex(HexDigits(i)))
        len_i == Len(i_bytes)
    IN  IF len_i > length
        THEN Raise("InvalidDH")
        ELSE Ok([k \in 1..(length - len_i) |-> 0] \o i_bytes)

\* pow(g, e, p) for p >= 1
RECURSIVE ModExp(_, _, _)
ModExp(g, e, p) == IF e = 0 THEN 1 % p ELSE (g * ModExp(g, e - 1, p)) % p

\* DH.gen_public_key
gen_public_key(g, private, p) == ModExp(g, private, p)

\* hashlib.sha256(...).digest(), a collision-free digest of the bytes.
sha256(bts) == <<"sha256", bts>>

\* A get_shared_key that raises the private key to the public one.
get_shared_keySwapped(public, private, p) ==
    LET s == ModExp(private, public, p)
    IN  sha256(unhexlify(EvenHex(HexDigits(s))))

\* DH.get_shared_key
get_shared_key(public, private, p) ==
    LET s == ModExp(public, private, p)
    IN  sha256(unhexlify(EvenHex(HexDigits(s))))

\* s[lo:hi] of Python, for 0 <= lo
Slice(s, lo, hi) ==
    LET h == IF hi < Len(s) THEN hi ELSE Len(s)
    IN  IF lo >= h THEN <<>> ELSE SubSeq(s, lo + 1, h)

\* s[-n:] of Python, for n > 0
LastBytes(s, n) == IF n >= Len(s) THEN s ELSE SubSeq(s, Len(s) - n + 1, Len(s))

\* DH.__bytes__: the key-exchange frame
DhBytes(p, g, pk) ==
    package(p, LEN_PRIME).val \o package(g, LEN_GEN).val \o package(pk, LEN_PK).val

\* DH.unpack: p, g, pk of a received frame
unpack(dh_message) ==
    LET p == b2i(Slice(dh_message, 0, LEN_PRIME))
        g == b2i(Slice(dh_message, LEN_PRIME, LEN_PRIME + LEN_GEN))
        pk == b2i(LastBytes(dh_message, LEN_PK))
    IN  IF p.err # "none" \/ g.err # "none" \/ pk.err # "none"
        THEN Raise("ValueError")
        ELSE Ok(<<p.val, g.val, pk.val>>)

----------------------------------------------------------------------------
\* src/cipher.py. A str is a sequence of code points (below 2048), a bytes
\* object a sequence of bytes. The bytes AES produces and the bytes of an
\* initialization vector are symbols that record how they were made.

\* An argument that was left None / that was given.
None == [some |-> FALSE, val |-> <<>>]
Some(x) == [some |-> TRUE, val |-> x]

\* Truth value of an argument: "if plaintext:", "elif ciphertext:".
Truthy(arg) == arg.some /\ Len(arg.val) > 0

\* The UTF-8 encoding of one code point.
Utf8Char(cp) == IF cp < 128 THEN <<cp>> ELSE <<192 + (cp \div 64), 128 + (cp % 64)>>

\* The UTF-8 encoding of a str, which is what the cipher receives when it
\* is handed a str.
RECURSIVE Utf8(_)
Utf8(str) == IF str = <<>> THEN <<>> ELSE Utf8Char(Head(str)) \o Utf8(Tail(str))

\* bytes.decode("utf-8")
RECURSIVE Utf8Decode(_)
Utf8Decode(bts) ==
    IF bts = <<>> THEN Ok(<<>>)
    ELSE IF bts[1] < 128
    THEN LET r == Utf8Decode(Tail(bts))
         IN  IF r.err # "none" THEN r ELSE Ok(<<bts[1]>> \o r.val)
    ELSE IF bts[1] \in 194..223 /\ Len(bts) >= 2 /\ bts[2] \in 128..191
    THEN LET r == Utf8Decode(Tail(Tail(bts)))
         IN  IF r.err # "none" THEN r
             ELSE Ok(<<((bts[1] - 192) * 64) + (bts[2] - 128)>> \o r.val)
    ELSE Raise("UnicodeDecodeError")

\* The bytes that bytes.rstrip() removes.
BytesWhitespace == {9, 10, 11, 12, 13, 32}

\* bytes.rstrip()
RECURSIVE Rstrip(_)
Rstrip(bts) ==
    IF bts = <<>> THEN <<>>
    ELSE IF bts[Len(bts)] \in BytesWhitespace
    THEN Rstrip(SubSeq(bts, 1, Len(bts) - 1))
    ELSE bts

\* Random.new().read(AES.block_size): the rnd-th random block.
RandomIv(rnd) ==
    [i \in 1..BlockSize |-> [kind |-> "iv", key |-> 0, iv |-> rnd, pos |-> i, pt |-> 0]]

\* A cipher that accepts data of any length.
CbcEncryptUnchecked(skey, iv, data) ==
    Ok([i \in 1..Len(data) |->
           [kind |-> "ct", key |-> skey, iv |-> iv[1].iv, pos |-> i, pt |-> data[i]]])

\* AES.new(key, AES.MODE_CBC, iv).encrypt(data): ValueError unless the data
\* is a whole number of blocks.
CbcEncrypt(skey, iv, data) ==
    IF Len(iv) # BlockSize \/ Len(data) % BlockSize # 0
    THEN Raise("ValueError")
    ELSE Ok([i \in 1..Len(data) |->
                [kind |-> "ct", key |-> skey, iv |-> iv[1].iv, pos |-> i, pt |-> data[i]]])

\* Byte i of x decrypts to the byte that was encrypted: it lies in a whole
\* block made under this key, at the offset it was made at, and the block
\* before it (the iv for the first one) is the one it was chained to.
Chained(skey, iv, x, i) ==
    LET off == (i - 1) % BlockSize
        start == i - off
        q == x[i].pos - off - 1
        prev == IF start = 1 THEN iv ELSE SubSeq(x, start - BlockSize, start - 1)
    IN  /\ x[i].kind = "ct"
        /\ x[i].key = skey
        /\ q >= 0 /\ q % BlockSize = 0
        /\ \A m \in 1..BlockSize :
              /\ x[start + m - 1].kind = "ct"
              /\ x[start + m - 1].key = skey
              /\ x[start + m - 1].iv = x[i].iv
              /\ x[start + m - 1].pos = q + m
        /\ IF q = 0
           THEN prev = RandomIv(x[i].iv)
           ELSE \A m \in 1..BlockSize :
                   /\ prev[m].kind = "ct"
                   /\ prev[m].key = skey
                   /\ prev[m].iv = x[i].iv
                   /\ prev[m].pos = q - BlockSize + m

\* AES.new(key, AES.MODE_CBC, iv).decrypt(x): a byte that is not Chained
\* comes out as a byte (255) that no UTF-8 text contains.
CbcDecrypt(skey, iv, x) ==
    IF Len(iv) # BlockSize \/ Len(x) % BlockSize # 0
    THEN Raise("ValueError")
    ELSE Ok([i \in 1..Len(x) |-> IF Chained(skey, iv, x, i) THEN x[i].pt ELSE 255])

\* Message.encrypt; rnd is what Random returns.
encrypt(skey, plaintext, rnd) ==
    LET iv == RandomIv(rnd)
        pt_len == Len(plaintext)
        buffer_size == BlockSize - (pt_len % BlockSize)
        c == CbcEncrypt(skey, iv, Utf8(plaintext \o [k \in 1..buffer_size |-> 32]))
    IN  IF c.err # "none" THEN c ELSE Ok(<<c.val, iv>>)

\* Message.decrypt
decrypt(skey, ciphertext) ==
    LET iv == Slice(ciphertext, 0, BlockSize)
        d == CbcDecrypt(skey, iv, ciphertext)
    IN  IF d.err # "none" THEN d
        ELSE LET t == Utf8Decode(Rstrip(Slice(d.val, BlockSize, Len(d.val))))
             IN  IF t.err # "none" THEN t ELSE Ok(<<t.val, iv>>)

\* Message.__init__
Message(skey, plaintext, ciphertext, rnd) ==
    IF Truthy(plaintext)
    THEN LET e == encrypt(skey, plaintext.val, rnd)
         IN  IF e.err # "none" THEN e
             ELSE Ok([plaintext |-> plaintext.val, ciphertext |-> e.val[1],
                      iv |-> e.val[2]])
    ELSE IF Truthy(ciphertext)
    THEN LET d == decrypt(skey, ciphertext.val)
         IN  IF d.err # "none" THEN d
             ELSE Ok([plaintext |-> d.val[1], ciphertext |-> ciphertext.val,
                      iv |-> d.val[2]])
    ELSE Raise("InvalidMessage")

\* Message.pack
pack(msg) == msg.iv \o msg.ciphertext

----------------------------------------------------------------------------
\* No key yet.
NoDigest == <<"none", <<>>>>

\* No key exchange is modelled byte by byte.
KexIdle ==
    /\ dh_params = <<0, 0>>
    /\ server_private = 0
    /\ client_private = 0
    /\ to_client = <<>>
    /\ to_server = <<>>
    /\ server_key = NoDigest
    /\ client_key = NoDigest
    /\ spc = "idle"
    /\ cpc = "idle"
    /\ sent = <<>>

\* A chat client whose user does nothing: the interface is up (src/client.py
\* lines 30, 39 and 131 have run), no line is submitted.
UiIdle ==
    /\ self_key = NoDigest
    /\ client_conn = "open"
    /\ client_cli = TRUE
    /\ cli_client = TRUE
    /\ chat_win = <<>>
    /\ upc = "idle"
    /\ ucontent = <<>>
    /\ submits = 0

\* A call that has not returned.
NotReturned == [err |-> "pending", val |-> <<>>]

\* No call is made.
LibIdle ==
    /\ call = [fn |-> "none"]
    /\ ret = NotReturned

\* The server after Server.__init__ line 44.
ServerInit ==
    /\ clients = <<>>
    /\ conn = [c \in Sessions |-> "none"]
    /\ peer = [c \in Sessions |-> "absent"]
    /\ kex = [c \in Sessions |-> "none"]
    /\ key = [c \in Sessions |-> NoKey]
    /\ wire = [c \in Sessions |-> EmptyBag]
    /\ pc = [t \in Threads |-> IF t = Main THEN "accept" ELSE "idle"]
    /\ site = [t \in Threads |-> "none"]
    /\ bmsg = [t \in Threads |-> NoMsg]
    /\ bi = [t \in Threads |-> 0]
    /\ cur = 0
    /\ si = 0
    /\ present = [t \in Threads |-> {}]
    /\ nchat = [c \in Sessions |-> 0]
    /\ exitReq = [c \in Sessions |-> FALSE]
    /\ events = 0

Init == ServerInit /\ KexIdle /\ UiIdle /\ LibIdle

----------------------------------------------------------------------------
\* Where a thread continues when self.disconnect(client) returns.
AfterDisconnect(s) ==
    CASE s = "eof" -> "done"            \* line 95: break
      [] s = "exit" -> "recv"           \* line 103: continue
      [] s = "except" -> "done"         \* line 108: break
      [] s = "shutdown" -> "sd_iter"    \* line 50: next client

\* Where a thread continues when self.broadcast(...) returns.
AfterBroadcast(s) ==
    CASE s = "chat" -> "recv"           \* line 104, back to line 88
      [] s = "join" -> "spawn"          \* line 81
      [] OTHER -> "remove"              \* line 126

\* Where an OSError raised inside broadcast lands.
OnBroadcastError(s) ==
    CASE s \in {"chat", "eof", "exit"} -> "disc"   \* line 106-107
      [] s = "except" -> "dead"         \* raised in the handler: thread dies
      [] s = "join" -> "crashed"        \* leaves Server.start
      [] s = "shutdown" -> "sd_crashed" \* leaves the KeyboardInterrupt handler

\* Begin self.broadcast(content, Target(t)) in thread t, called from site s.
StartBroadcast(t, content, s) ==
    /\ bmsg' = [bmsg EXCEPT ![t] = content]
    /\ bi' = [bi EXCEPT ![t] = 0]
    /\ site' = [site EXCEPT ![t] = s]


\* The frame of self.broadcast is left: its locals are gone.
EndBroadcast(t) ==
    /\ bmsg' = [bmsg EXCEPT ![t] = NoMsg]
    /\ bi' = [bi EXCEPT ![t] = 0]
    /\ present' = [present EXCEPT ![t] = {}]

\* The call site recorded for thread t once self.disconnect has returned.
Returned(t) == IF t = Main THEN "shutdown" ELSE "none"

\* A disconnect that does not look the client up in the registry.
InRegistryUnchecked(c) == TRUE

\* client in self.clients (line 123)
InRegistry(c) == c \in Range(clients)

----------------------------------------------------------------------------
\* Server.start, lines 67-70: accept the next connection, begin Client.dh.
Accept(c) ==
    /\ pc[Main] = "accept"
    /\ conn[c] = "none"
    /\ \A d \in Sessions : d < c => conn[d] # "none"
    /\ conn' = [conn EXCEPT ![c] = "open"]
    /\ peer' = [peer EXCEPT ![c] = "up"]
    /\ kex' = [kex EXCEPT ![c] = "exchanging"]
    /\ cur' = c
    /\ pc' = [pc EXCEPT ![Main] = "dh_send"]
    /\ UNCHANGED <<kexvars, clivars, libvars, clients, key, wire, site, bmsg, bi, si, present, nchat, exitReq, events>>

\* The remote endpoint closes or resets its side of the connection.
PeerGone(c) ==
    /\ conn[c] = "open"
    /\ peer[c] = "up"
    /\ events < MaxEvents
    /\ events' = events + 1
    /\ peer' = [peer EXCEPT ![c] = "gone"]
    /\ UNCHANGED <<kexvars, clivars, libvars, clients, conn, kex, key, wire, pc, site, bmsg, bi, cur, si,
                   present, nchat, exitReq>>

\* Client.dh, line 164: sendall(dh_message) succeeds.
DhSendOk ==
    /\ pc[Main] = "dh_send"
    /\ CanWrite(cur)
    /\ pc' = [pc EXCEPT ![Main] = "dh_recv"]
    /\ UNCHANGED <<kexvars, clivars, libvars, clients, conn, peer, kex, key, wire, site, bmsg, bi, cur, si,
                   present, nchat, exitReq, events>>

\* Client.dh, line 164: sendall raises OSError, which nothing catches.
DhSendFail ==
    /\ pc[Main] = "dh_send"
    /\ CanFail(cur)
    /\ kex' = [kex EXCEPT ![cur] = "failed"]
    /\ pc' = [pc EXCEPT ![Main] = "crashed"]
    /\ UNCHANGED <<kexvars, clivars, libvars, clients, conn, peer, key, wire, site, bmsg, bi, cur, si,
                   present, nchat, exitReq, events>>

\* Client.dh, lines 167-174: a response arrives (all LEN_PK bytes, or only
\* the first part of them) and a key is derived from it.
DhRecvKey(resp) ==
    /\ pc[Main] = "dh_recv"
    /\ peer[cur] = "up"
    /\ resp = "short" => events < MaxEvents
    /\ events' = IF resp = "short" THEN events + 1 ELSE events
    /\ key' = [key EXCEPT ![cur] = SharedKey(cur, resp)]
    /\ kex' = [kex EXCEPT ![cur] = "ok"]
    /\ pc' = [pc EXCEPT ![Main] = "reg"]
    /\ UNCHANGED <<kexvars, clivars, libvars, clients, conn, peer, wire, site, bmsg, bi, cur, si, present,
                   nchat, exitReq>>

\* Client.dh, lines 168-170: recv raises ConnectionError, dh returns None.
DhRecvError ==
    /\ pc[Main] = "dh_recv"
    /\ peer[cur] = "gone"
    /\ key' = [key EXCEPT ![cur] = NoKey]
    /\ kex' = [kex EXCEPT ![cur] = "failed"]
    /\ pc' = [pc EXCEPT ![Main] = "reg"]
    /\ UNCHANGED <<kexvars, clivars, libvars, clients, conn, peer, wire, site, bmsg, bi, cur, si, present,
                   nchat, exitReq, events>>

\* Client.dh, lines 167, 171: the peer closed, recv returns b'' and
\* DH.b2i(b'') raises ValueError, which nothing catches.
DhRecvEmpty ==
    /\ pc[Main] = "dh_recv"
    /\ peer[cur] = "gone"
    /\ kex' = [kex EXCEPT ![cur] = "failed"]
    /\ pc' = [pc EXCEPT ![Main] = "crashed"]
    /\ UNCHANGED <<kexvars, clivars, libvars, clients, conn, peer, key, wire, site, bmsg, bi, cur, si,
                   present, nchat, exitReq, events>>

\* Server.start, lines 72-75: no key, close the connection and go on.
RejectUnkeyed ==
    /\ pc[Main] = "reg"
    /\ key[cur] = NoKey
    /\ conn' = [conn EXCEPT ![cur] = "closed"]
    /\ pc' = [pc EXCEPT ![Main] = "accept"]
    /\ UNCHANGED <<kexvars, clivars, libvars, clients, peer, kex, key, wire, site, bmsg, bi, cur, si,
                   present, nchat, exitReq, events>>

\* Server.start, lines 76-79: append the client and begin the join broadcast.
Register ==
    /\ pc[Main] = "reg"
    /\ key[cur] # NoKey
    /\ clients' = Append(clients, cur)
    /\ StartBroadcast(Main, JoinMsg(cur), "join")
    /\ present' = [present EXCEPT ![Main] = Range(clients')]
    /\ pc' = [pc EXCEPT ![Main] = "bcast"]
    /\ UNCHANGED <<kexvars, clivars, libvars, conn, peer, kex, key, wire, cur, si, nchat, exitReq, events>>

\* Server.start, line 81: start the listen thread of the new client.
Spawn ==
    /\ pc[Main] = "spawn"
    /\ pc' = [pc EXCEPT ![Main] = "accept", ![cur] = "recv"]
    /\ UNCHANGED <<kexvars, clivars, libvars, clients, conn, peer, kex, key, wire, site, bmsg, bi, cur, si,
                   present, nchat, exitReq, events>>

----------------------------------------------------------------------------
\* Server.broadcast, line 115: the positions the list iterator of thread t
\* has still to visit whose client passes the filter
\* "client is not from_client".
Pending(t) == {i \in (bi[t] + 1)..Len(clients) : clients[i] # Target(t)}

\* The position of the next client.send(msg) of the broadcast of thread t.
NextPos(t) == CHOOSE i \in Pending(t) : \A j \in Pending(t) : i <= j

\* Server.broadcast, line 115: the list iterator is exhausted.
BroadcastEnd(t) ==
    /\ pc[t] = "bcast"
    /\ Pending(t) = {}
    /\ pc' = [pc EXCEPT ![t] = AfterBroadcast(site[t])]
    /\ EndBroadcast(t)
    /\ site' = [site EXCEPT ![t] = IF @ \in {"chat", "join"} THEN "none" ELSE @]
    /\ UNCHANGED <<kexvars, clivars, libvars, clients, conn, peer, kex, key, wire, cur, si, nchat, exitReq, events>>

\* Server.broadcast, line 115: client.send(msg) to the next client.
BroadcastSend(t) ==
    /\ pc[t] = "bcast"
    /\ Pending(t) # {}
    /\ CanWrite(clients[NextPos(t)])
    /\ wire' = ClientSend(clients[NextPos(t)], bmsg[t])
    /\ bi' = [bi EXCEPT ![t] = NextPos(t)]
    /\ UNCHANGED <<kexvars, clivars, libvars, clients, conn, peer, kex, key, pc, site, bmsg, cur, si,
                   present, nchat, exitReq, events>>

\* Server.broadcast, line 115: client.send(msg) raises OSError, which leaves
\* the list comprehension and broadcast.
BroadcastFail(t) ==
    /\ pc[t] = "bcast"
    /\ Pending(t) # {}
    /\ CanFail(clients[NextPos(t)])
    /\ pc' = [pc EXCEPT ![t] = OnBroadcastError(site[t])]
    /\ site' = [site EXCEPT ![t] =
                   IF OnBroadcastError(@) = "disc" THEN "except" ELSE "none"]
    /\ EndBroadcast(t)
    /\ UNCHANGED <<kexvars, clivars, libvars, clients, conn, peer, kex, key, wire, cur, si, nchat, exitReq, events>>

----------------------------------------------------------------------------
\* A reader that hands the peer's messages over last-first.
NextReadReversed(c) == MaxEvents - nchat[c]

\* Server.listen, line 91: connection.recv returns the bytes of a TCP stream
\* in the order the peer wrote them, and one thread alone reads a session's
\* connection, so the next message read is the one after the last one read.
NextRead(c) == nchat[c] + 1

\* Server.listen, lines 91-104: a chat message is read and decrypted.
RecvChat(c) ==
    /\ pc[c] = "recv"
    /\ conn[c] = "open" /\ peer[c] = "up"
    /\ key[c] = PeerKey(c)
    /\ events < MaxEvents
    /\ events' = events + 1
    /\ nchat' = [nchat EXCEPT ![c] = @ + 1]
    /\ StartBroadcast(c, ChatMsg(c, NextRead(c)), "chat")
    /\ present' = [present EXCEPT ![c] = Range(clients)]
    /\ pc' = [pc EXCEPT ![c] = "bcast"]
    /\ UNCHANGED <<kexvars, clivars, libvars, clients, conn, peer, kex, key, wire, cur, si, exitReq>>

\* Server.listen, lines 91-100: !exit is read and decrypted.
RecvExit(c) ==
    /\ pc[c] = "recv"
    /\ conn[c] = "open" /\ peer[c] = "up"
    /\ key[c] = PeerKey(c)
    /\ events < MaxEvents
    /\ events' = events + 1
    /\ exitReq' = [exitReq EXCEPT ![c] = TRUE]
    /\ pc' = [pc EXCEPT ![c] = "ack"]
    /\ UNCHANGED <<kexvars, clivars, libvars, clients, conn, peer, kex, key, wire, site, bmsg, bi, cur, si,
                   present, nchat>>

\* Server.listen, line 98: the data does not decrypt to UTF-8 text (other
\* key, partial or coalesced frame): Message raises ValueError, which the
\* except OSError clause does not catch.
RecvUndecodable(c) ==
    /\ pc[c] = "recv"
    /\ conn[c] = "open" /\ peer[c] = "up"
    /\ events < MaxEvents
    /\ events' = events + 1
    /\ pc' = [pc EXCEPT ![c] = "dead"]
    /\ UNCHANGED <<kexvars, clivars, libvars, clients, conn, peer, kex, key, wire, site, bmsg, bi, cur, si,
                   present, nchat, exitReq>>

\* Server.listen, lines 91-94: recv returns b''.
RecvEof(c) ==
    /\ pc[c] = "recv"
    /\ conn[c] = "open" /\ peer[c] = "gone"
    /\ pc' = [pc EXCEPT ![c] = "disc"]
    /\ site' = [site EXCEPT ![c] = "eof"]
    /\ UNCHANGED <<kexvars, clivars, libvars, clients, conn, peer, kex, key, wire, bmsg, bi, cur, si,
                   present, nchat, exitReq, events>>

\* Server.listen, lines 91, 106-107: recv raises OSError.
RecvError(c) ==
    /\ pc[c] = "recv"
    /\ CanFail(c)
    /\ pc' = [pc EXCEPT ![c] = "disc"]
    /\ site' = [site EXCEPT ![c] = "except"]
    /\ UNCHANGED <<kexvars, clivars, libvars, clients, conn, peer, kex, key, wire, bmsg, bi, cur, si,
                   present, nchat, exitReq, events>>

\* Server.listen, lines 101-102: Acknowledged is written.
AckOk(c) ==
    /\ pc[c] = "ack"
    /\ CanWrite(c)
    /\ wire' = ClientSend(c, AckMsg)
    /\ pc' = [pc EXCEPT ![c] = "disc"]
    /\ site' = [site EXCEPT ![c] = "exit"]
    /\ UNCHANGED <<kexvars, clivars, libvars, clients, conn, peer, kex, key, bmsg, bi, cur, si, present,
                   nchat, exitReq, events>>

\* Server.listen, lines 101, 106-107: writing Acknowledged raises OSError.
AckFail(c) ==
    /\ pc[c] = "ack"
    /\ CanFail(c)
    /\ pc' = [pc EXCEPT ![c] = "disc"]
    /\ site' = [site EXCEPT ![c] = "except"]
    /\ UNCHANGED <<kexvars, clivars, libvars, clients, conn, peer, kex, key, wire, bmsg, bi, cur, si,
                   present, nchat, exitReq, events>>

----------------------------------------------------------------------------
\* Server.disconnect, lines 122-125: close the connection; if the client is
\* in the registry, begin the departure broadcast.
DisconnectRegistered(t) ==
    /\ pc[t] = "disc"
    /\ InRegistry(Target(t))
    /\ conn' = [conn EXCEPT ![Target(t)] = "closed"]
    /\ StartBroadcast(t, DisconnectMsg(Target(t)), site[t])
    /\ present' = [present EXCEPT ![t] = Range(clients)]
    /\ pc' = [pc EXCEPT ![t] = "bcast"]
    /\ UNCHANGED <<kexvars, clivars, libvars, clients, peer, kex, key, wire, cur, si, nchat, exitReq, events>>

\* Server.disconnect, lines 122-123: close the connection; the client is
\* not in the registry, nothing else is done.
DisconnectAbsent(t) ==
    /\ pc[t] = "disc"
    /\ ~InRegistry(Target(t))
    /\ conn' = [conn EXCEPT ![Target(t)] = "closed"]
    /\ pc' = [pc EXCEPT ![t] = AfterDisconnect(site[t])]
    /\ site' = [site EXCEPT ![t] = Returned(t)]
    /\ UNCHANGED <<kexvars, clivars, libvars, clients, peer, kex, key, wire, bmsg, bi, cur, si, present,
                   nchat, exitReq, events>>

\* Server.disconnect, lines 126-130: remove the client from the registry.
Remove(t) ==
    /\ pc[t] = "remove"
    /\ clients' = ListRemove(clients, Target(t))
    /\ present' = [u \in Threads |-> present[u] \cap Range(clients')]
    /\ pc' = [pc EXCEPT ![t] = AfterDisconnect(site[t])]
    /\ site' = [site EXCEPT ![t] = Returned(t)]
    /\ UNCHANGED <<kexvars, clivars, libvars, conn, peer, kex, key, wire, bmsg, bi, cur, si, nchat, exitReq, events>>

----------------------------------------------------------------------------
\* Server.__init__, lines 46-49: KeyboardInterrupt reaches the main thread
\* while it waits in socket.accept (line 67).
Interrupt ==
    /\ pc[Main] = "accept"
    /\ events < MaxEvents
    /\ events' = events + 1
    /\ pc' = [pc EXCEPT ![Main] = "sd_iter"]
    /\ si' = 0
    /\ site' = [site EXCEPT ![Main] = "shutdown"]
    /\ UNCHANGED <<kexvars, clivars, libvars, clients, conn, peer, kex, key, wire, bmsg, bi, cur, present,
                   nchat, exitReq>>

\* Server.__init__, line 50: the list comprehension takes the next client
\* of self.clients and calls self.disconnect on it.
ShutdownNext ==
    /\ pc[Main] = "sd_iter"
    /\ si < Len(clients)
    /\ cur' = clients[si + 1]
    /\ si' = si + 1
    /\ pc' = [pc EXCEPT ![Main] = "disc"]
    /\ UNCHANGED <<kexvars, clivars, libvars, clients, conn, peer, kex, key, wire, site, bmsg, bi, present,
                   nchat, exitReq, events>>

\* Server.__init__, lines 50-52: the iterator is exhausted; close the
\* listening socket and sys.exit().
ShutdownEnd ==
    /\ pc[Main] = "sd_iter"
    /\ si >= Len(clients)
    /\ pc' = [pc EXCEPT ![Main] = "exited"]
    /\ UNCHANGED <<kexvars, clivars, libvars, clients, conn, peer, kex, key, wire, site, bmsg, bi, cur, si,
                   present, nchat, exitReq, events>>

----------------------------------------------------------------------------
Next ==
    \/ \E c \in Sessions : Accept(c)
    \/ \E c \in Sessions : PeerGone(c)
    \/ DhSendOk
    \/ DhSendFail
    \/ \E resp \in {"full", "short"} : DhRecvKey(resp)
    \/ DhRecvError
    \/ DhRecvEmpty
    \/ RejectUnkeyed
    \/ Register
    \/ Spawn
    \/ \E t \in Threads : BroadcastEnd(t)
    \/ \E t \in Threads : BroadcastSend(t)
    \/ \E t \in Threads : BroadcastFail(t)
    \/ \E c \in Sessions : RecvChat(c)
    \/ \E c \in Sessions : RecvExit(c)
    \/ \E c \in Sessions : RecvUndecodable(c)
    \/ \E c \in Sessions : RecvEof(c)
    \/ \E c \in Sessions : RecvError(c)
    \/ \E c \in Sessions : AckOk(c)
    \/ \E c \in Sessions : AckFail(c)
    \/ \E t \in Threads : DisconnectRegistered(t)
    \/ \E t \in Threads : DisconnectAbsent(t)
    \/ \E t \in Threads : Remove(t)
    \/ Interrupt
    \/ ShutdownNext
    \/ ShutdownEnd

Spec == Init /\ [][Next]_vars

----------------------------------------------------------------------------
\* The key exchange of one connection, both ends: Client.dh of src/server.py
\* and Client.dh of src/client.py, over a byte stream whose recv returns any
\* non-empty prefix of what has arrived, up to the size asked for.

\* The (p, g) the server may have generated.
Groups == {<<23, 5>>, <<257, 3>>}

\* Both ends are about to run Client.dh.
KexStart ==
    /\ dh_params \in Groups
    /\ server_private \in 1..MaxExp
    /\ client_private \in 1..MaxExp
    /\ to_client = <<>>
    /\ to_server = <<>>
    /\ server_key = NoDigest
    /\ client_key = NoDigest
    /\ spc = "send"
    /\ cpc = "recv"
    /\ sent = <<>>

InitKex == ServerInit /\ LibIdle /\ UiIdle /\ KexStart

\* src/server.py Client.dh, lines 154-164: make the public key and send
\* the frame.
ServerDhSend ==
    /\ spc = "send"
    /\ LET p == dh_params[1]
           g == dh_params[2]
           public_key == gen_public_key(g, server_private, p)
       IN  to_client' = to_client \o DhBytes(p, g, public_key)
    /\ spc' = "recv"
    /\ UNCHANGED <<svars, clivars, libvars, dh_params, server_private,
                   client_private, to_server, server_key, client_key, cpc, sent>>

\* src/client.py Client.dh, lines 55-66: the interface is there to take the
\* progress line (line 55); recv returns the first n bytes; unpack, answer
\* with the public key, derive the key. A ValueError of DH.b2i or pow (or
\* InvalidDH of DH.package) ends the thread.
ClientDh(n) ==
    /\ cpc = "recv"
    /\ client_cli
    /\ n <= Len(to_client)
    /\ to_client' = SubSeq(to_client, n + 1, Len(to_client))
    /\ LET u == unpack(SubSeq(to_client, 1, n))
       IN  IF u.err # "none" \/ u.val[1] = 0
           THEN /\ cpc' = "crashed"
                /\ UNCHANGED <<to_server, client_key, sent>>
           ELSE LET p == u.val[1]
                    g == u.val[2]
                    server_pk == u.val[3]
                    public_key == gen_public_key(g, client_private, p)
                    answer == package(public_key, LEN_PK)
                IN  IF answer.err # "none"
                    THEN /\ cpc' = "crashed"
                         /\ UNCHANGED <<to_server, client_key, sent>>
                    ELSE /\ to_server' = to_server \o answer.val
                         /\ sent' = Append(sent, [what |-> "public_key",
                                                  data |-> answer.val,
                                                  key |-> self_key])
                         /\ client_key' = get_shared_key(server_pk, client_private, p)
                         /\ cpc' = "done"
    /\ UNCHANGED <<svars, clivars, libvars, dh_params, server_private,
                   client_private, server_key, spc>>

\* src/server.py Client.dh, lines 167-174: recv returns the first m bytes
\* of the answer; the key is derived from them.
ServerDhRecv(m) ==
    /\ spc = "recv"
    /\ m <= Len(to_server)
    /\ to_server' = SubSeq(to_server, m + 1, Len(to_server))
    /\ LET response == SubSeq(to_server, 1, m)
           client_pk == b2i(response).val
       IN  server_key' = get_shared_key(client_pk, server_private, dh_params[1])
    /\ spc' = "done"
    /\ UNCHANGED <<svars, clivars, libvars, dh_params, server_private,
                   client_private, to_client, client_key, cpc, sent>>

NextKex ==
    \/ ServerDhSend
    \/ \E n \in 1..DH_MSG_SIZE : ClientDh(n)
    \/ \E m \in 1..LEN_PK : ServerDhRecv(m)

SpecKex == InitKex /\ [][NextKex]_vars

----------------------------------------------------------------------------
\* The chat client process of src/client.py: the thread running Client.start
\* and the main thread running CLI.main, next to the key exchange above. The
\* lines of the chat box are those of Client.send, Client.start, CLI.submit
\* and CLI.uninit_client; messages relayed by the server are not read here.

\* "!exit"
ExitText == <<33, 101, 120, 105, 116>>

\* What the user may type: "a", "a " and "é".
Contents == {<<97>>, <<97, 32>>, <<233>>}

\* The threads of src/client.py lines 131-137 have just been started.
UiStart ==
    /\ self_key = NoDigest
    /\ client_conn = "open"
    /\ client_cli = TRUE
    /\ cli_client = TRUE
    /\ chat_win = <<>>
    /\ upc = "main"
    /\ ucontent = <<>>
    /\ submits = 0

\* The private keys drawn for the chat client process: the smallest and the
\* largest exponent.
ClientExps == {1, MaxExp}

InitClient ==
    /\ ServerInit
    /\ LibIdle
    /\ UiStart
    /\ dh_params \in Groups
    /\ server_private \in ClientExps
    /\ client_private \in ClientExps
    /\ to_client = <<>>
    /\ to_server = <<>>
    /\ server_key = NoDigest
    /\ client_key = NoDigest
    /\ spc = "send"
    /\ cpc = "recv"
    /\ sent = <<>>

\* CLI.add_msg
add_msg(line) == chat_win' = Append(chat_win, line)

\* A test that takes every key for an established one.
HasKeyUnchecked == TRUE

\* src/client.py line 76 and src/cli.py line 158: self.key is not None (a
\* SHA-256 digest is 32 bytes, never the empty string).
HasKey == self_key # NoDigest

\* src/client.py Client.dh, line 55: the interface has gone (clean_exit has
\* set self.cli to None), add_msg raises AttributeError before anything is
\* read or sent.
ClientDhNoCli ==
    /\ cpc = "recv"
    /\ ~client_cli
    /\ cpc' = "crashed"
    /\ UNCHANGED <<svars, clivars, libvars, dh_params, server_private,
                   client_private, to_client, to_server, server_key,
                   client_key, spc, sent>>

\* src/client.py Client.dh, line 56, and Client.start, lines 89-91: recv
\* raises ConnectionError; the thread reports it and returns, the key stays
\* None.
ClientUnable ==
    /\ cpc = "recv"
    /\ client_cli
    /\ cpc' = "unable"
    /\ add_msg("Unable to Connect")
    /\ UNCHANGED <<svars, libvars, dh_params, server_private, client_private,
                   to_client, to_server, server_key, client_key, spc, sent,
                   self_key, client_conn, client_cli, cli_client, upc,
                   ucontent, submits>>

\* src/client.py Client.dh, lines 68-69, and Client.start, line 88: the key
\* is shown and returned, and only then assigned to self.key. With the
\* interface gone, line 68 raises AttributeError and the key is never set.
ClientSetKey ==
    /\ cpc = "done"
    /\ IF client_cli
       THEN /\ self_key' = client_key
            /\ cpc' = "listen"
       ELSE /\ cpc' = "crashed"
            /\ UNCHANGED self_key
    /\ UNCHANGED <<svars, libvars, dh_params, server_private, client_private,
                   to_client, to_server, server_key, client_key, spc, sent,
                   client_conn, client_cli, cli_client, chat_win, upc,
                   ucontent, submits>>

\* src/client.py Client.start, lines 93-100 and 108-111: recv returns b'' or
\* raises OSError; the socket is closed and the interface told. With the
\* interface gone, uninit_client raises AttributeError.
ClientLost ==
    /\ cpc = "listen"
    /\ client_conn = "open"
    /\ client_conn' = "closed"
    /\ IF client_cli
       THEN /\ add_msg("Connection Lost")
            /\ cli_client' = FALSE
            /\ cpc' = "closed"
       ELSE /\ cpc' = "crashed"
            /\ UNCHANGED <<chat_win, cli_client>>
    /\ UNCHANGED <<svars, libvars, dh_params, server_private, client_private,
                   to_client, to_server, server_key, client_key, spc, sent,
                   self_key, client_cli, upc, ucontent, submits>>

\* src/cli.py CLI.submit, lines 107-120, and src/client.py Client.send, lines
\* 76-78: the user enters a line. Without a client it is refused; without a
\* key Client.send reports the error and returns; with a key the message is
\* about to be made and sent.
UiSubmit(content) ==
    /\ upc = "main"
    /\ submits < MaxSubmits
    /\ submits' = submits + 1
    /\ IF ~cli_client
       THEN /\ add_msg("Error: Not Connected to Server")
            /\ UNCHANGED <<upc, ucontent>>
       ELSE IF ~HasKey
       THEN /\ chat_win' = chat_win \o <<"You: ", "Error: Key Not Established">>
            /\ UNCHANGED <<upc, ucontent>>
       ELSE /\ add_msg("You: ")
            /\ upc' = "send"
            /\ ucontent' = content
    /\ UNCHANGED <<svars, kexvars, libvars, self_key, client_conn, client_cli,
                   cli_client>>

\* src/client.py Client.send, lines 79-80: the message is encrypted under
\* self.key and written. An exception of Message or of sendall leaves
\* Client.send, CLI.submit (or CLI.clean_exit) and CLI.main: the main thread
\* ends. After the !exit of clean_exit, src/cli.py line 160 clears Client.cli.
UiSendall(rnd) ==
    /\ upc \in {"send", "exit_send"}
    /\ LET msg == Message(self_key, Some(ucontent), None, rnd)
       IN  IF msg.err # "none" \/ client_conn # "open"
           THEN /\ upc' = "crashed"
                /\ UNCHANGED <<sent, client_cli>>
           ELSE /\ sent' = Append(sent, [what |-> "message",
                                         data |-> pack(msg.val),
                                         key |-> self_key])
                /\ upc' = IF upc = "exit_send" THEN "exited" ELSE "main"
                /\ client_cli' = (client_cli /\ upc # "exit_send")
    /\ ucontent' = <<>>
    /\ UNCHANGED <<svars, libvars, dh_params, server_private, client_private,
                   to_client, to_server, server_key, client_key, spc, cpc,
                   self_key, client_conn, cli_client, chat_win, submits>>

\* src/client.py lines 138-139 and src/cli.py CLI.clean_exit, lines 157-160:
\* KeyboardInterrupt reaches the main thread, in the input loop or inside a
\* send; !exit is sent only if there is a client and it has a key.
UiCleanExit ==
    /\ upc \in {"main", "send"}
    /\ IF cli_client /\ HasKey
       THEN /\ upc' = "exit_send"
            /\ ucontent' = ExitText
            /\ UNCHANGED client_cli
       ELSE /\ upc' = "exited"
            /\ ucontent' = <<>>
            /\ client_cli' = (client_cli /\ ~cli_client)
    /\ UNCHANGED <<svars, kexvars, libvars, self_key, client_conn, cli_client,
                   chat_win, submits>>

NextClient ==
    \/ ServerDhSend
    \/ \E n \in 1..DH_MSG_SIZE : ClientDh(n)
    \/ \E m \in 1..LEN_PK : ServerDhRecv(m)
    \/ ClientDhNoCli
    \/ ClientUnable
    \/ ClientSetKey
    \/ ClientLost
    \/ \E content \in Contents : UiSubmit(content)
    \/ \E rnd \in 1..MaxIv : UiSendall(rnd)
    \/ UiCleanExit

SpecClient == InitClient /\ [][NextClient]_vars

----------------------------------------------------------------------------
\* Calls of the functions of src/dhke.py and src/cipher.py on their own.

Primes == {p \in 2..MaxPrime : \A d \in 2..(p - 1) : p % d # 0}

\* Values whose encoding is at the limit of a width, and small ones.
Values == (0..MaxValue) \cup {256 ^ k - 1 : k \in 1..MaxWidth} \cup {256 ^ k : k \in 1..MaxWidth}

\* Code points: a space, a letter, a letter that takes two bytes.
Chars == {32, 97, 233}
Strs(n) == UNION {[1..k -> Chars] : k \in 0..n}

\* Plaintexts of every length up to MaxLen + 3.
Plaintexts ==
    {pre \o [k \in 1..n |-> 97] \o suf : pre \in Strs(1), suf \in Strs(2), n \in 0..MaxLen}

\* Keys and frames to build a Message from.
Keys == {1, 2}
Frames == {<<>>} \cup {pack(Message(k, Some(<<97>>), None, 1).val) : k \in Keys}

AgreeCalls ==
    {[fn |-> "agree", p |-> p, g |-> g, a |-> a, b |-> b] :
        p \in Primes, g \in 1..MaxPrime, a \in 1..MaxExp, b \in 1..MaxExp}

PackageCalls == {[fn |-> "package", v |-> v, w |-> w] : v \in Values, w \in 1..MaxWidth}

MessageCalls ==
    {[fn |-> "message", key |-> k, plaintext |-> pt, ciphertext |-> ct] :
        k \in Keys,
        pt \in {None} \cup {Some(s) : s \in Plaintexts},
        ct \in {None} \cup {Some(f) : f \in Frames}}

InitLib ==
    /\ ServerInit
    /\ KexIdle
    /\ UiIdle
    /\ call \in {c \in AgreeCalls : c.g < c.p} \cup PackageCalls
                \cup {c \in MessageCalls : ~(c.plaintext.some /\ c.ciphertext.some)}
    /\ ret = NotReturned

\* Both sides of an exchange: DH.gen_public_key, then DH.get_shared_key on
\* the other side's public key.
Agree ==
    /\ call.fn = "agree"
    /\ ret = NotReturned
    /\ LET pkA == gen_public_key(call.g, call.a, call.p)
           pkB == gen_public_key(call.g, call.b, call.p)
       IN  ret' = Ok([pkA |-> pkA, pkB |-> pkB,
                      keyA |-> get_shared_key(pkB, call.a, call.p),
                      keyB |-> get_shared_key(pkA, call.b, call.p)])
    /\ UNCHANGED <<svars, kexvars, clivars, call>>

\* DH.package, and DH.b2i of what it returned.
Package ==
    /\ call.fn = "package"
    /\ ret = NotReturned
    /\ LET packed == package(call.v, call.w)
       IN  ret' = Ok([packed |-> packed,
                      back |-> IF packed.err = "none" THEN b2i(packed.val)
                               ELSE Raise(packed.err)])
    /\ UNCHANGED <<svars, kexvars, clivars, call>>

\* Message(key, plaintext, ciphertext); a Message built from a plaintext
\* is packed and a second Message is built from the packed bytes.
Construct(rnd) ==
    /\ call.fn = "message"
    /\ ret = NotReturned
    /\ LET built == Message(call.key, call.plaintext, call.ciphertext, rnd)
       IN  ret' = Ok([built |-> built,
                      parsed |-> IF built.err = "none" /\ Truthy(call.plaintext)
                                 THEN Message(call.key, None, Some(pack(built.val)), rnd)
                                 ELSE Raise("none built")])
    /\ UNCHANGED <<svars, kexvars, clivars, call>>

NextLib ==
    \/ Agree
    \/ Package
    \/ \E rnd \in 1..MaxIv : Construct(rnd)

SpecLib == InitLib /\ [][NextLib]_vars

----------------------------------------------------------------------------
\* Vocabulary of the properties.

\* Number of frames with this text that were written to session r.
Written(r, text) == CopiesIn([key |-> key[r], text |-> text], wire[r])

\* Session r can be written to: its connection is open at both ends.
Healthy(r) == conn[r] = "open" /\ peer[r] = "up"

\* The main thread has received KeyboardInterrupt.
ShuttingDown == site[Main] = "shutdown" \/ pc[Main] = "sd_crashed"

\* Thread t is inside self.disconnect.
Disconnecting(t) ==
    \/ pc[t] \in {"disc", "remove"}
    \/ pc[t] = "bcast" /\ site[t] \in {"eof", "exit", "except", "shutdown"}

\* The positions at which an OSError raised by broadcast leaves a thread.
FailedPcs == {"disc", "dead", "crashed", "sd_crashed"}

----------------------------------------------------------------------------
\* C1. Broadcast fan-out: when the broadcast of a chat message of session a
\* ends, every other session that was in the registry during the whole
\* broadcast and can be written to has been sent the message under its own
\* key, and session a is never sent its own chat message.
BroadcastFanOut ==
    [][\A a \in Sessions :
          /\ \A f \in BagToSet(wire'[a]) :
                ~(f.text[1] = "chat" /\ f.text[2] = a)
          /\ (pc[a] = "bcast" /\ site[a] = "chat" /\ pc'[a] # "bcast") =>
                \A r \in present[a] \ {a} :
                    Healthy(r) =>
                        CopiesIn([key |-> key[r], text |-> bmsg[a]], wire'[r]) >= 1
      ]_vars

\* C2. Per-recipient fault isolation: when a write to one recipient fails
\* during a broadcast, every other recipient that was in the registry during
\* the whole broadcast and can be written to is still sent the message.
FaultIsolation ==
    [][\A t \in Threads :
          (pc[t] = "bcast" /\ pc'[t] \in FailedPcs) =>
              \A r \in present[t] \ {Target(t), clients[NextPos(t)]} :
                  Healthy(r) =>
                      CopiesIn([key |-> key[r], text |-> bmsg[t]], wire'[r]) >= 1
      ]_vars

\* C3. Disconnect cleanup: once the server has finished handling the !exit
\* of session c (and is not shutting down), Acknowledged was written to c
\* exactly once, c is out of the registry, no session was sent more than one
\* departure notice for c, and every session that is still in the registry,
\* was registered before c and can be written to was sent exactly one.
DisconnectCleanup ==
    \A c \in Sessions :
        (exitReq[c] /\ pc[c] \in {"done", "dead"} /\ ~ShuttingDown) =>
            /\ peer[c] = "up" => Written(c, AckMsg) = 1
            /\ c \notin Range(clients)
            /\ \A r \in Sessions \ {c} : Written(r, DisconnectMsg(c)) <= 1
            /\ \A r \in Range(clients) :
                   (r < c /\ Healthy(r)) => Written(r, DisconnectMsg(c)) = 1

\* C4. Idempotent removal: a call of Server.disconnect on a session that is
\* not in the registry returns to its caller at once, leaving the registry
\* and every connection's written frames as they were.
IdempotentRemoval ==
    [][\A t \in Threads :
          (pc[t] = "disc" /\ Target(t) \notin Range(clients) /\ pc'[t] # pc[t]) =>
              /\ pc'[t] = AfterDisconnect(site[t])
              /\ clients' = clients
              /\ wire' = wire
      ]_vars

\* Session c sent !exit and nothing else happened: its first disconnect
\* removed it and notified the others, the second one (line 107, after recv
\* failed on the closed socket) found it removed and returned.
IdempotentRemovalWitness ==
    \E c \in Sessions :
        /\ exitReq[c] /\ events = 1 /\ pc[c] = "done"
        /\ c \notin Range(clients)
        /\ Len(clients) = 2
        /\ \A r \in Range(clients) : Written(r, DisconnectMsg(c)) = 1

\* C5. Registry mutual exclusion: the registry is never changed (append,
\* remove) while a thread is in the middle of the iteration of a broadcast.
RegistryMutualExclusion ==
    [][clients' # clients =>
          \A t \in Threads : ~(pc[t] = "bcast" /\ bi[t] > 0)
      ]_vars

\* C6. No lost or duplicated registry entries: whenever no disconnect is
\* running and the accept loop waits for the next connection, the registry
\* holds exactly the sessions that completed the key exchange and whose
\* disconnect was never started, each once.
NoLostOrDuplicatedEntries ==
    (pc[Main] = "accept" /\ \A t \in Threads : ~Disconnecting(t)) =>
        /\ Range(clients) = {c \in Sessions : kex[c] = "ok" /\ conn[c] = "open"}
        /\ \A i, j \in 1..Len(clients) : clients[i] = clients[j] => i = j

\* C7. Registered only once keyed: every session in the registry has a key;
\* a session whose key exchange failed is not in the registry, was written
\* no frame, has no join or departure notice written about it, and is
\* closed once Server.start is past line 73.
RegisteredOnlyOnceKeyed ==
    /\ \A i \in 1..Len(clients) : key[clients[i]] # NoKey
    /\ \A c \in Sessions :
          kex[c] = "failed" =>
              /\ c \notin Range(clients)
              /\ wire[c] = EmptyBag
              /\ \A r \in Sessions :
                     Written(r, JoinMsg(c)) = 0 /\ Written(r, DisconnectMsg(c)) = 0
              /\ ~(pc[Main] = "reg" /\ cur = c) => conn[c] = "closed"

\* C8. Server survives client failures: the accept loop of Server.start is
\* never left through an exception caused by a client connection.
AcceptLoopSurvives == pc[Main] # "crashed"

\* C9. Teardown does not propagate: a registered session is closed by the
\* server only if its own peer closed, reset or sent !exit (or the server is
\* shutting down), and a session whose teardown has ended is out of the
\* registry.
TeardownContained ==
    \A c \in Sessions :
        (kex[c] = "ok" /\ conn[c] = "closed" /\ ~ShuttingDown) =>
            /\ peer[c] = "gone" \/ exitReq[c]
            /\ pc[c] \in {"done", "dead"} => c \notin Range(clients)

\* C10. Graceful shutdown destroys every session: when the shutdown of
\* Server.__init__ has completed, the registry is empty and every session
\* that was registered has its transport closed.
ShutdownDestroysSessions ==
    pc[Main] = "exited" =>
        /\ clients = <<>>
        /\ \A c \in Sessions : kex[c] = "ok" => conn[c] = "closed"

\* C11. End-to-end session key agreement: when both ends of a key exchange
\* have completed Client.dh, the key the server stored is the key the client
\* stored, whatever part of the bytes in flight each recv returned.
KeyAgreementEndToEnd ==
    (spc = "done" /\ cpc = "done") => server_key = client_key

\* C12. Key agreement correctness: the key derived from the other side's
\* public key and one's own exponent is the same on both sides; for p = 23,
\* g = 5, a = 6, b = 15 the public keys are 8 and 19 and the key is the
\* digest of the integer 2.
SharedKeyAgreement ==
    (call.fn = "agree" /\ ret.err = "none") =>
        /\ ret.val.keyA = ret.val.keyB
        /\ (call.p = 23 /\ call.g = 5 /\ call.a = 6 /\ call.b = 15) =>
              /\ ret.val.pkA = 8
              /\ ret.val.pkB = 19
              /\ ret.val.keyA = sha256(<<2>>)

SharedKeyAgreementWitness ==
    /\ call = [fn |-> "agree", p |-> 23, g |-> 5, a |-> 6, b |-> 15]
    /\ ret.err = "none"
    /\ ret.val.keyB = sha256(<<2>>)

\* The number a byte string denotes, most significant byte first.
RECURSIVE BigEndian(_)
BigEndian(bts) ==
    IF bts = <<>> THEN 0
    ELSE (256 * BigEndian(SubSeq(bts, 1, Len(bts) - 1))) + bts[Len(bts)]

\* C13. Wire round-trip: for a value v that fits in w bytes, DH.package(v, w)
\* returns w bytes that denote v (so zero bytes on the left) and DH.b2i of
\* them is v; package(255, 2) is the bytes 0, 255.
WireRoundTrip ==
    (call.fn = "package" /\ ret.err = "none" /\ call.v < 256 ^ call.w) =>
        /\ ret.val.packed.err = "none"
        /\ Len(ret.val.packed.val) = call.w
        /\ BigEndian(ret.val.packed.val) = call.v
        /\ ret.val.back.err = "none"
        /\ ret.val.back.val = call.v
        /\ (call.v = 255 /\ call.w = 2) => ret.val.packed.val = <<0, 255>>

WireRoundTripWitness ==
    /\ call = [fn |-> "package", v |-> 255, w |-> 2]
    /\ ret.err = "none"
    /\ ret.val.packed.val = <<0, 255>>
    /\ ret.val.back.val = 255

\* C14. Length check of the wire codec: DH.package(v, w) raises InvalidDH
\* exactly when v does not fit in w bytes, and what it returns otherwise
\* denotes v: a value is never truncated.
LengthCheck ==
    (call.fn = "package" /\ ret.err = "none") =>
        /\ ret.val.packed.err \in {"none", "InvalidDH"}
        /\ ret.val.packed.err = "InvalidDH" <=> call.v >= 256 ^ call.w
        /\ ret.val.packed.err = "none" => BigEndian(ret.val.packed.val) = call.v

LengthCheckWitness ==
    /\ call = [fn |-> "package", v |-> 256, w |-> 1]
    /\ ret.err = "none"
    /\ ret.val.packed.err = "InvalidDH"

\* The code points str.rstrip() removes, among those below 2048.
StrWhitespace == {9, 10, 11, 12, 13, 28, 29, 30, 31, 32, 133, 160}

NoTrailingWhitespace(str) == str = <<>> \/ str[Len(str)] \notin StrWhitespace

\* C15. Envelope round-trip: a Message built from a plaintext without
\* trailing whitespace, packed, and built again from the packed bytes with
\* the same key has the original plaintext.
EnvelopeRoundTrip ==
    (/\ call.fn = "message" /\ ret.err = "none"
     /\ call.plaintext.some /\ ~call.ciphertext.some
     /\ NoTrailingWhitespace(call.plaintext.val)) =>
        /\ ret.val.built.err = "none"
        /\ ret.val.parsed.err = "none"
        /\ ret.val.parsed.val.plaintext = call.plaintext.val

\* C16. Frame size invariant: when Message.encrypt succeeds the IV is one
\* block long and the ciphertext is a positive whole number of blocks long,
\* and the packed frame is the one followed by the other.
FrameSizeInvariant ==
    (/\ call.fn = "message" /\ ret.err = "none"
     /\ Truthy(call.plaintext) /\ ret.val.built.err = "none") =>
        /\ Len(ret.val.built.val.iv) = BlockSize
        /\ Len(ret.val.built.val.ciphertext) > 0
        /\ Len(ret.val.built.val.ciphertext) % BlockSize = 0
        /\ Len(pack(ret.val.built.val)) = BlockSize + Len(ret.val.built.val.ciphertext)

\* A plaintext of exactly one block was encrypted into two blocks.
FrameSizeInvariantWitness ==
    /\ call.fn = "message" /\ ret.err = "none"
    /\ call.plaintext = Some([k \in 1..BlockSize |-> 97])
    /\ ret.val.built.err = "none"
    /\ Len(ret.val.built.val.ciphertext) = 2 * BlockSize

\* C17. Construction contract: Message raises InvalidMessage exactly when
\* neither a plaintext nor a ciphertext was supplied.
ConstructionContract ==
    (call.fn = "message" /\ ret.err = "none") =>
        (ret.val.built.err = "InvalidMessage"
            <=> (~call.plaintext.some /\ ~call.ciphertext.some))

\* C18. Decode errors are non-fatal: the receive loop of a session is never
\* ended by an exception raised while a frame it has read is decrypted and
\* decoded.
DecodeErrorsNonFatal ==
    [][\A c \in Sessions : pc[c] = "recv" => pc'[c] # "dead"]_vars

\* C19. Independent handling of connections: while the key exchange of one
\* connection waits for the peer's answer, the server is able to accept the
\* next connection.
IndependentHandling ==
    \A c \in Sessions :
        (/\ pc[Main] = "dh_recv" /\ cur = c /\ peer[c] = "up"
         /\ \E d \in Sessions : conn[d] = "none") =>
            ENABLED (\E d \in Sessions : Accept(d))

\* The steps of a thread that do not depend on the peer sending data: a
\* runnable thread is scheduled, writes to a socket and reads from a closed or
\* reset socket return.
Step(t) ==
    \/ BroadcastEnd(t) \/ BroadcastSend(t) \/ BroadcastFail(t)
    \/ DisconnectRegistered(t) \/ DisconnectAbsent(t) \/ Remove(t)
    \/ (t \in Sessions /\ (RecvEof(t) \/ RecvError(t) \/ AckOk(t) \/ AckFail(t)))

FairSpec == Spec /\ \A t \in Threads : WF_vars(Step(t))

\* The receive loop of session c has ended.
Terminated(c) == pc[c] \in {"done", "dead"}

\* C20. !exit closes the session for good: reading !exit from session c
\* starts no broadcast and writes to no other session; from then on thread c
\* reads and relays no message of c; and the receive loop of c ends.
ExitClosesSession ==
    /\ [][\A c \in Sessions :
            /\ (~exitReq[c] /\ exitReq'[c]) => (pc'[c] = "ack" /\ wire' = wire)
            /\ exitReq[c] =>
                  /\ nchat'[c] = nchat[c]
                  /\ ~(pc'[c] = "bcast" /\ site'[c] = "chat")
                  /\ \A r \in Sessions : \A f \in BagToSet(wire'[r]) :
                        (f.text[1] = "chat" /\ f.text[2] = c) =>
                            CopiesIn(f, wire'[r]) = CopiesIn(f, wire[r])
       ]_vars
    /\ \A c \in Sessions : exitReq[c] ~> Terminated(c)

\* Session c chatted, then sent !exit: it was acknowledged, closed and
\* removed, and its thread has left Server.listen.
ExitClosesSessionWitness ==
    \E c \in Sessions :
        /\ exitReq[c] /\ nchat[c] = 1 /\ Terminated(c)
        /\ conn[c] = "closed"
        /\ Written(c, AckMsg) = 1

-----------------------------------------------------------------------------
\* C21  Per-sender order.  Whenever the n-th message of a session a is
\* relayed to another session r, no later message of a has been relayed to r
\* before it: r is written a's messages in the order a sent them, whatever
\* other broadcasts run in between.
PerSenderOrder ==
    [][\A a \in Sessions : \A r \in Sessions \ {a} : \A n \in 1..MaxEvents :
          Written(r, ChatMsg(a, n))' > Written(r, ChatMsg(a, n))
              => \A m \in (n + 1)..MaxEvents : Written(r, ChatMsg(a, m)) = 0]_vars

\* Two messages of one session have both been relayed to another session.
PerSenderOrderWitness ==
    \E a \in Sessions : \E r \in Sessions \ {a} :
        /\ Written(r, ChatMsg(a, 1)) > 0
        /\ Written(r, ChatMsg(a, 2)) > 0

-----------------------------------------------------------------------------
\* C22  No zombie sessions.  Whenever the thread running Server.listen for a
\* session has ended, for whatever reason, the session is no longer in the
\* registry and its connection has been closed.
NoZombieSessions ==
    \A c \in Sessions :
        Terminated(c) => c \notin Range(clients) /\ conn[c] = "closed"

-----------------------------------------------------------------------------
\* C23  No traffic before the key.  Every message frame the chat client has
\* written, the !exit of a clean exit included, was written with the session
\* key established; what was written without the key is the key-exchange
\* response alone, LEN_PK bytes, before anything else. A line submitted
\* while the client has no key puts the error into the chat box and leaves
\* the connection and what has been written on it as they were.
NoTrafficBeforeKey ==
    /\ [](\A i \in DOMAIN sent :
            /\ sent[i].what = "message" => sent[i].key # NoDigest
            /\ sent[i].key = NoDigest =>
                   /\ sent[i].what = "public_key"
                   /\ Len(sent[i].data) = LEN_PK
                   /\ i = 1)
    /\ [][(submits' # submits /\ cli_client /\ self_key = NoDigest) =>
              /\ chat_win'[Len(chat_win')] = "Error: Key Not Established"
              /\ sent' = sent
              /\ to_server' = to_server
              /\ client_conn' = client_conn
              /\ upc' = upc]_vars

\* A line was refused for want of a key, the key was then established, and a
\* message frame was written after the key-exchange response.
NoTrafficBeforeKeyWitness ==
    /\ \E i \in DOMAIN chat_win : chat_win[i] = "Error: Key Not Established"
    /\ Len(sent) >= 2
    /\ sent[1].what = "public_key"
    /\ sent[2].what = "message"
    /\ self_key # NoDigest

====
